---------------------------- MODULE Spec2Model ----------------------------
(***************************************************************************)
(* A model of bernoullimix/mixture.py: the BernoulliMixture class, its     *)
(* constructor and validator, the dataset aggregator, the support, E-step  *)
(* and M-step computations and the EM loop of fit.                         *)
(*                                                                         *)
(* Numbers.  A float is a record [k, n, d]: k = "num" is the rational n/d  *)
(* in lowest terms (d > 0); k = "nan", "pinf", "ninf" are the IEEE         *)
(* specials numpy produces for 0/0, x/0 and log(0).  Arithmetic on "num"   *)
(* is exact; the specials follow IEEE-754 as numpy applies it (a warning,  *)
(* never an exception).                                                    *)
(*                                                                         *)
(* Log-likelihoods.  np.log is not rational, so a log-likelihood value x   *)
(* is held as the float exp(x): k = "num" with n/d > 0 is x = ln(n/d),     *)
(* "ninf" is x = -inf, "nan" is nan, and k = "none" is Python's None.      *)
(* Sums of logs are products, w * log(s) is log(s^w), and                  *)
(* |x - y| <= ln(r) is n_x/d_x <= r * n_y/d_y and conversely.  A           *)
(* convergence_threshold is therefore given by r = exp(threshold) >= 1.    *)
(***************************************************************************)
EXTENDS Integers, Sequences, FiniteSets, TLC

VARIABLES
    pc,                        \* "new" | "failed" | "idle" | "loop" | "ready" | "aggregated"
    args,                      \* the arguments the constructor was given
    number_of_components,      \* self._number_of_components
    number_of_dimensions,      \* self._number_of_dimensions
    mixing_coefficients,       \* self._mixing_coefficients
    emission_probabilities,    \* self._emission_probabilities
    dataset,                   \* fit: the dataset argument
    unique_dataset,            \* fit: the aggregated rows
    counts,                    \* fit: their weights
    iteration_limit,           \* fit: argument (-1 stands for None)
    convergence_threshold,     \* fit: argument, as exp(threshold)
    trace_likelihood,          \* fit: argument
    iterations_done,           \* fit: local
    previous_log_likelihood,   \* fit: local
    current_log_likelihood,    \* fit: local
    likelihood_trace,          \* fit: local
    converged,                 \* fit: local
    result,                    \* what the last completed call returned or raised
    calls,                     \* history: calls made on the Model so far
    h_updates,                 \* history: M-steps committed by the running/last fit
    h_trace,                   \* history: the log-likelihood of each committed iteration
    h_params                   \* history: the Model's parameters when the call began

vars == <<pc, args, number_of_components, number_of_dimensions,
          mixing_coefficients, emission_probabilities, dataset, unique_dataset,
          counts, iteration_limit, convergence_threshold, trace_likelihood,
          iterations_done, previous_log_likelihood, current_log_likelihood,
          likelihood_trace, converged, result, calls, h_updates, h_trace,
          h_params>>

-----------------------------------------------------------------------------
(* Bounds of the model. *)

MaxK == 2
MaxD == 2
MaxN == 2
MaxLimit == 2
MaxIter == 3
MaxCalls == 1
MaxAggN == 3

-----------------------------------------------------------------------------
(* Floats. *)

Abs(x) == IF x < 0 THEN 0 - x ELSE x

RECURSIVE GCD(_, _)
GCD(a, b) == IF b = 0 THEN a ELSE GCD(b, a % b)

Rat(n, d) ==
    LET g == GCD(Abs(n), d)
    IN  [k |-> "num", n |-> n \div g, d |-> d \div g]

NaN == [k |-> "nan", n |-> 0, d |-> 1]
PInf == [k |-> "pinf", n |-> 0, d |-> 1]
NInf == [k |-> "ninf", n |-> 0, d |-> 1]
None == [k |-> "none", n |-> 0, d |-> 1]
Uninit == [k |-> "uninit", n |-> 0, d |-> 1]
Zero == Rat(0, 1)
One == Rat(1, 1)
Half == Rat(1, 2)

IsNum(a) == a.k = "num"
IsInf(a) == a.k \in {"pinf", "ninf"}
Sign(a) == IF a.k = "pinf" THEN 1
           ELSE IF a.k = "ninf" THEN 0 - 1
           ELSE IF a.n > 0 THEN 1
           ELSE IF a.n < 0 THEN 0 - 1 ELSE 0
InfOf(s) == IF s > 0 THEN PInf ELSE NInf

Add(a, b) ==
    IF a.k = "nan" \/ b.k = "nan" THEN NaN
    ELSE IF IsInf(a) /\ IsInf(b) THEN (IF a.k = b.k THEN a ELSE NaN)
    ELSE IF IsInf(a) THEN a
    ELSE IF IsInf(b) THEN b
    ELSE LET g == GCD(a.d, b.d)
         IN  Rat(a.n * (b.d \div g) + b.n * (a.d \div g), (a.d \div g) * b.d)

Mul(a, b) ==
    IF a.k = "nan" \/ b.k = "nan" THEN NaN
    ELSE IF IsInf(a) \/ IsInf(b)
         THEN (IF Sign(a) * Sign(b) = 0 THEN NaN ELSE InfOf(Sign(a) * Sign(b)))
    ELSE LET g1 == GCD(Abs(a.n), b.d)
             g2 == GCD(Abs(b.n), a.d)
         IN  Rat((a.n \div g1) * (b.n \div g2), (a.d \div g2) * (b.d \div g1))

Div(a, b) ==
    IF a.k = "nan" \/ b.k = "nan" THEN NaN
    ELSE IF IsInf(a) /\ IsInf(b) THEN NaN
    ELSE IF IsInf(a) THEN InfOf(Sign(a) * (IF Sign(b) < 0 THEN 0 - 1 ELSE 1))
    ELSE IF IsInf(b) THEN Zero
    ELSE IF b.n = 0 THEN (IF a.n = 0 THEN NaN ELSE InfOf(Sign(a)))
    ELSE IF b.n < 0 THEN Mul(a, Rat(0 - b.d, 0 - b.n))
    ELSE Mul(a, Rat(b.d, b.n))

Neg(a) ==
    IF a.k = "pinf" THEN NInf
    ELSE IF a.k = "ninf" THEN PInf
    ELSE IF a.k = "num" THEN Rat(0 - a.n, a.d) ELSE a

Sub(a, b) == Add(a, Neg(b))

\* a <= b as numpy compares floats: FALSE when either is nan.
Leq(a, b) ==
    IF a.k = "nan" \/ b.k = "nan" THEN FALSE
    ELSE IF a.k = "ninf" \/ b.k = "pinf" THEN TRUE
    ELSE IF a.k = "pinf" \/ b.k = "ninf" THEN FALSE
    ELSE LET g == GCD(a.d, b.d)
         IN  a.n * (b.d \div g) <= b.n * (a.d \div g)

AbsNum(a) == IF a.k = "ninf" THEN PInf
             ELSE IF a.k = "num" /\ a.n < 0 THEN Rat(0 - a.n, a.d) ELSE a

RECURSIVE SumSeq(_)
SumSeq(s) == IF s = <<>> THEN Zero ELSE Add(SumSeq(SubSeq(s, 1, Len(s) - 1)), s[Len(s)])

RECURSIVE SumInt(_)
SumInt(s) == IF s = <<>> THEN 0 ELSE SumInt(SubSeq(s, 1, Len(s) - 1)) + s[Len(s)]

FromInt(i) == Rat(i, 1)

\* The sequence s with its elements evaluated: TLC keeps [i \in 1..n |-> e] as
\* an expression and would evaluate e again at every application.
Eval(s) == SubSeq(s, 1, Len(s))

-----------------------------------------------------------------------------
(* Arrays.  A vector is a sequence of floats, a matrix a record            *)
(* [cols, rows] whose rows are sequences of length cols, so that an array  *)
(* of shape (0, c) keeps its column count.                                 *)

Matrix(c, rws) == [cols |-> c, rows |-> rws]
NRows(m) == Len(m.rows)
Shape1(v) == <<Len(v)>>
Shape2(m) == <<NRows(m), m.cols>>
EmptyMatrix == Matrix(0, <<>>)

-----------------------------------------------------------------------------
(* numpy's isclose(a, b, rtol, atol) on one pair of floats: for finite     *)
(* values |a - b| <= atol + rtol * |b|, otherwise a == b (nan is close to  *)
(* nothing, an infinity to itself).                                        *)

isclose(a, b, rtol, atol) ==
    IF IsNum(a) /\ IsNum(b)
    THEN Leq(AbsNum(Sub(a, b)), Add(atol, Mul(rtol, AbsNum(b))))
    ELSE a.k # "nan" /\ a = b

\* isclose's defaults, rtol = 1e-05 and atol = 1e-08, as 1 / RtolInv and 1 / AtolInv.
RtolInv == 100000
AtolInv == 100000000

-----------------------------------------------------------------------------
(* BernoulliMixture.__init__ and _validate. *)

\* Mutant: the bounds taken as exclusive.
_bounded_exclusive(array_) ==
    \A i \in DOMAIN array_ :
        Leq(Zero, array_[i]) /\ Leq(array_[i], One) /\ array_[i] \notin {Zero, One}

_bounded_between_zero_and_one(array_) ==
    \A i \in DOMAIN array_ : Leq(Zero, array_[i]) /\ Leq(array_[i], One)

Flatten(m) ==
    Eval([i \in 1..(NRows(m) * m.cols) |->
             m.rows[((i - 1) \div m.cols) + 1][((i - 1) % m.cols) + 1]])

NoError == ""
WrongMixingShape == "ValueError: Wrong shape of mixing coefficients provided"
MixingSum == "ValueError: Mixing coefficient probabilities do not sum to one"
MixingBounds == "ValueError: Mixing coefficients not bounded between 0 and 1"
WrongEmissionShape == "ValueError: Wrong shape of emission probabilities matrix"
EmissionBounds == "ValueError: Emission probabilities not bounded between 0 and 1"
DimensionMismatch == "ValueError: The dataset shape does not match number of dimensions"

\* The error _validate raises for these fields, NoError when it returns.
_validate(K, D, mixing, emissions) ==
    IF Shape1(mixing) # <<K>> THEN WrongMixingShape
    ELSE IF ~isclose(SumSeq(mixing), One, Rat(1, RtolInv), Rat(1, AtolInv)) THEN MixingSum
    ELSE IF ~_bounded_between_zero_and_one(mixing) THEN MixingBounds
    ELSE IF Shape2(emissions) # <<K, D>> THEN WrongEmissionShape
    ELSE IF ~_bounded_between_zero_and_one(Flatten(emissions)) THEN EmissionBounds
    ELSE NoError

NoResult ==
    [op |-> "", error |-> NoError, ll |-> None, converged |-> FALSE,
     number_of_iterations |-> 0, trace_available |-> FALSE,
     likelihood_trace |-> <<>>, soft |-> EmptyMatrix, hard |-> <<>>,
     psi |-> None, eta |-> 0]

Raised(op, err) == [NoResult EXCEPT !.op = op, !.error = err]

Params == <<mixing_coefficients, emission_probabilities>>

fitLocals == <<dataset, unique_dataset, counts, iteration_limit, convergence_threshold,
               trace_likelihood, iterations_done, previous_log_likelihood,
               current_log_likelihood, likelihood_trace, converged>>
history == <<calls, h_updates, h_trace, h_params>>
fields == <<number_of_components, number_of_dimensions, mixing_coefficients,
            emission_probabilities>>

\* likelihood_trace = None
NoTrace == [none |-> TRUE, v |-> <<>>]

WorkAtRest ==
    /\ unique_dataset = EmptyMatrix
    /\ counts = <<>>
    /\ iteration_limit = 0
    /\ convergence_threshold = One
    /\ trace_likelihood = FALSE
    /\ iterations_done = 0
    /\ previous_log_likelihood = None
    /\ current_log_likelihood = None
    /\ likelihood_trace = NoTrace
    /\ converged = FALSE

LocalsAtRest == dataset = EmptyMatrix /\ WorkAtRest

\* The values an array entry is drawn from when a Model is constructed:
\* mixing coefficients (1 - 1e-06 is within isclose's tolerance of 1) and
\* emission probabilities.
MixingValues == {Rat(0 - 1, 2), Zero, One, Rat(3, 2), NaN, Rat(999999, 1000000)}
EmissionValues == {Rat(0 - 1, 2), Zero, One, Rat(3, 2), NaN}
\* The probabilities the parameters of a valid initial Model are drawn from.
MixingProbs == {Zero, Half, One}
EmissionProbs == {Zero, Half}

Vectors(n, S) == [1..n -> S]
Matrices(r, c, S) == {Matrix(c, rws) : rws \in [1..r -> [1..c -> S]]}

ArgSpace(SM, SE) ==
    {[K |-> K, D |-> D, mixing |-> m, emissions |-> e] :
        K \in 1..MaxK, D \in 1..MaxD,
        m \in UNION {Vectors(n, SM) : n \in 1..MaxK},
        e \in UNION {Matrices(r, c, SE) : r \in 1..MaxK, c \in 1..MaxD}}

\* BernoulliMixture(K, D, mixing, emissions): lines 53-57 set the fields, line 59
\* validates them; an exception leaves pc = "failed" (no object is returned).
__init__(a) ==
    /\ pc = "new"
    /\ args' = a
    /\ number_of_components' = a.K
    /\ number_of_dimensions' = a.D
    /\ mixing_coefficients' = a.mixing
    /\ emission_probabilities' = a.emissions
    /\ LET err == _validate(a.K, a.D, a.mixing, a.emissions)
       IN  IF err # NoError
           THEN pc' = "failed" /\ result' = Raised("__init__", err)
           ELSE pc' = "idle" /\ result' = [NoResult EXCEPT !.op = "__init__"]
    /\ h_params' = <<a.mixing, a.emissions>>
    /\ UNCHANGED <<fitLocals, calls, h_updates, h_trace>>

NoArgs == [K |-> 0, D |-> 0, mixing |-> <<>>, emissions |-> EmptyMatrix]

InitNew ==
    /\ pc = "new"
    /\ args = NoArgs
    /\ number_of_components = 0
    /\ number_of_dimensions = 0
    /\ mixing_coefficients = <<>>
    /\ emission_probabilities = EmptyMatrix
    /\ LocalsAtRest
    /\ result = NoResult
    /\ calls = 0
    /\ h_updates = 0
    /\ h_trace = <<>>
    /\ h_params = <<<<>>, EmptyMatrix>>

\* The arguments a constructor call is tried with, invalid ones included.
NewArgs == ArgSpace(MixingValues, EmissionValues)

NextNew == pc = "new" /\ \E a \in NewArgs : __init__(a)

SpecNew == InitNew /\ [][NextNew]_vars

-----------------------------------------------------------------------------
(* BernoulliMixture._aggregate_dataset: np.unique(rows, return_counts=True) *)
(* sorts the rows, keeps each row that differs from the one before it, and *)
(* counts by the distance between kept positions.                          *)

RECURSIVE RowLess(_, _)
RowLess(a, b) ==
    IF a = <<>> \/ b = <<>> THEN FALSE
    ELSE IF Head(a) # Head(b) THEN Head(b)
    ELSE RowLess(Tail(a), Tail(b))

RECURSIVE Insert(_, _)
Insert(r, sorted) ==
    IF sorted = <<>> THEN <<r>>
    ELSE IF RowLess(Head(sorted), r) THEN <<Head(sorted)>> \o Insert(r, Tail(sorted))
    ELSE <<r>> \o sorted

RECURSIVE SortRows(_)
SortRows(rws) == IF rws = <<>> THEN <<>> ELSE Insert(Head(rws), SortRows(Tail(rws)))

\* The positions of a sorted sequence where a new value starts.
RECURSIVE Starts(_, _)
Starts(sorted, i) ==
    IF i > Len(sorted) THEN <<>>
    ELSE IF i = 1 \/ sorted[i] # sorted[i - 1] THEN <<i>> \o Starts(sorted, i + 1)
    ELSE Starts(sorted, i + 1)

\* Mutant: the last group counted up to the last position, not past it.
UniqueCountsShort(sorted, idx) ==
    Eval([j \in 1..Len(idx) |->
             (IF j < Len(idx) THEN idx[j + 1] ELSE Len(sorted)) - idx[j]])

UniqueCounts(sorted, idx) ==
    Eval([j \in 1..Len(idx) |->
             (IF j < Len(idx) THEN idx[j + 1] ELSE Len(sorted) + 1) - idx[j]])

\* <<unique, counts>>
_aggregate_dataset(ds) ==
    LET sorted == SortRows(ds.rows)
        idx == Starts(sorted, 1)
    IN  <<Matrix(ds.cols, Eval([j \in 1..Len(idx) |-> sorted[idx[j]]])),
          UniqueCounts(sorted, idx)>>

-----------------------------------------------------------------------------
(* The two kernels of bernoullimix._bernoulli, which mixture.py imports.   *)

Min(a, b) == IF a < b THEN a ELSE b

RECURSIVE BernoulliRow(_, _, _)
BernoulliRow(p, row, d) ==
    IF d = 0 THEN One
    ELSE Mul(BernoulliRow(p, row, d - 1), IF row[d] THEN p[d] ELSE Sub(One, p[d]))

\* Per row, the product over the dimensions of p[d] if the row is true at d,
\* else 1 - p[d].  On rows of another width than p the product runs over the
\* dimensions both have.
bernoulli_prob_for_observations(p, observations) ==
    Eval([i \in 1..NRows(observations) |->
             BernoulliRow(p, observations.rows[i], Min(Len(p), observations.cols))])

KernelError == "error raised inside bernoulli_prob_for_observations"

\* What the kernel does with rows of another width than p is not fixed: it
\* returns the product over the shared dimensions, or it raises.
kernel_outcomes(p, observations) ==
    IF Len(p) = observations.cols THEN {"returns"} ELSE {"returns", "raises"}

RECURSIVE WeightedColumn(_, _, _, _, _, _)
WeightedColumn(unique, zstar, weights, k, d, i) ==
    IF i = 0 THEN Zero
    ELSE Add(WeightedColumn(unique, zstar, weights, k, d, i - 1),
             Mul(Mul(FromInt(weights[i]), zstar.rows[i][k]),
                 IF unique.rows[i][d] THEN One ELSE Zero))

\* vs[k][d] = sum over rows i of weights[i] * zstar[i][k] * unique[i][d]
maximise_emissions(unique, zstar, weights) ==
    Matrix(unique.cols,
           Eval([k \in 1..zstar.cols |->
                    Eval([d \in 1..unique.cols |->
                             WeightedColumn(unique, zstar, weights, k, d,
                                            NRows(unique))])]))

-----------------------------------------------------------------------------
(* Support, log-likelihood, E-step and M-step. *)

_observation_emission_support(mixing, emissions, observations) ==
    LET answer == Eval([component \in 1..Len(mixing) |->
                           LET probs == bernoulli_prob_for_observations(
                                            emissions.rows[component], observations)
                           IN  Eval([i \in 1..NRows(observations) |->
                                        Mul(mixing[component], probs[i])])])
    IN  Matrix(Len(mixing),
               Eval([i \in 1..NRows(observations) |->
                        Eval([component \in 1..Len(mixing) |->
                                 answer[component][i]])]))

\* np.log, into the representation of log values.
Log(s) ==
    IF s.k = "num"
    THEN (IF s.n < 0 THEN NaN ELSE IF s.n = 0 THEN NInf ELSE s)
    ELSE IF s.k = "ninf" THEN NaN ELSE s

RECURSIVE Pow(_, _)
Pow(a, w) == IF w = 0 THEN One ELSE Mul(Pow(a, w - 1), a)

\* log value * integer weight
LogTimes(l, w) ==
    IF l.k = "num" THEN Pow(l, w)
    ELSE IF IsInf(l) /\ w = 0 THEN NaN ELSE l

\* log value + log value
LogAdd(a, b) ==
    IF a.k = "nan" \/ b.k = "nan" THEN NaN
    ELSE IF IsInf(a) /\ IsInf(b) THEN (IF a.k = b.k THEN a ELSE NaN)
    ELSE IF IsInf(a) THEN a
    ELSE IF IsInf(b) THEN b
    ELSE Mul(a, b)

RECURSIVE LogSumTo(_, _, _)
LogSumTo(support, weights, i) ==
    IF i = 0 THEN One
    ELSE LogAdd(LogSumTo(support, weights, i - 1),
                LogTimes(Log(SumSeq(support.rows[i])), weights[i]))

_log_likelihood_from_support(support, weights) ==
    LogSumTo(support, weights, NRows(support))

_posterior_probability_of_class_given_support(support) ==
    Matrix(support.cols,
           Eval([i \in 1..NRows(support) |->
                    LET total == SumSeq(support.rows[i])
                    IN  Eval([k \in 1..support.cols |->
                                 Div(support.rows[i][k], total)])]))

\* <<new mixing coefficients, new emission probabilities>>
_m_step(unique_zstar, unique, weights) ==
    LET K == unique_zstar.cols
        u == Eval([k \in 1..K |->
                      SumSeq(Eval([i \in 1..NRows(unique_zstar) |->
                                      Mul(unique_zstar.rows[i][k],
                                          FromInt(weights[i]))]))])
        sum_of_weights == SumInt(weights)
        vs == maximise_emissions(unique, unique_zstar, weights)
    IN  <<Eval([k \in 1..K |-> Div(u[k], FromInt(sum_of_weights))]),
          Matrix(vs.cols,
                 Eval([k \in 1..K |->
                          Eval([d \in 1..vs.cols |-> Div(vs.rows[k][d], u[k])])]))>>

-----------------------------------------------------------------------------
(* The calls on a constructed Model. *)

BoolMatrices(n, c) == {Matrix(c, rws) : rws \in [1..n -> [1..c -> BOOLEAN]]}

\* The datasets a call is given: N x c boolean arrays.
Datasets == UNION {BoolMatrices(n, c) : n \in 0..MaxN, c \in 1..MaxD}
\* iteration_limit: 0..MaxLimit, and -1 for None.
Limits == (0..MaxLimit) \cup {0 - 1}
\* convergence_threshold as exp(threshold): the thresholds 0 and ln 2.
Thresholds == {One, Rat(2, 1)}

IsNone(limit) == limit < 0
\* Python's truth value of iteration_limit: None and 0 are false.
Truthy(limit) == limit > 0

\* Mutant: the row count compared instead of the column count.
dimension_mismatch_rows(ds, D) == NRows(ds) # D

\* dataset.shape[1] != self.number_of_dimensions
dimension_mismatch(ds, D) == ds.cols # D

\* np.isclose(current, previous, rtol=0, atol=threshold) on log values.
isclose_log(current, previous, threshold) ==
    IF IsNum(current) /\ IsNum(previous)
    THEN Leq(current, Mul(threshold, previous)) /\ Leq(previous, Mul(threshold, current))
    ELSE current.k # "nan" /\ current = previous

\* Mutant: one pass too many.
loop_continues_inclusive(limit, done) == IsNone(limit) \/ done <= limit

\* The while condition of fit.
loop_continues(limit, done) == IsNone(limit) \/ done < limit

\* Mutant: the threshold not passed on to isclose (atol = 0).
convergence_detected_exact(current, previous, threshold) ==
    previous # None /\ isclose_log(current, previous, One)

\* Mutant: previous_log_likelihood starting at 0.0 instead of None.
convergence_detected_from_zero(current, previous, threshold) ==
    isclose_log(current, IF previous = None THEN One ELSE previous, threshold)

\* The break condition of fit.
convergence_detected(current, previous, threshold) ==
    previous # None /\ isclose_log(current, previous, threshold)

\* Lines 291-297: np.empty(iteration_limit) holds unwritten slots.
new_trace(trace, limit) ==
    IF trace
    THEN (IF Truthy(limit)
          THEN [none |-> FALSE, v |-> Eval([i \in 1..limit |-> Uninit])]
          ELSE [none |-> FALSE, v |-> <<>>])
    ELSE NoTrace

\* Lines 317-321.
record_trace(tr, trace, limit, done, ll) ==
    IF trace
    THEN (IF Truthy(limit)
          THEN [tr EXCEPT !.v[done + 1] = ll]
          ELSE [tr EXCEPT !.v = Append(@, ll)])
    ELSE tr

\* Mutant: the pre-sized buffer returned untrimmed.
final_trace_untrimmed(tr, trace, limit, done) == tr

\* Lines 327-331.
final_trace(tr, trace, limit, done) ==
    IF trace
    THEN (IF ~Truthy(limit) THEN tr
          ELSE IF done < Len(tr.v) THEN [tr EXCEPT !.v = SubSeq(@, 1, done)]
          ELSE tr)
    ELSE tr

\* What fit returns as the log likelihood.
returned_log_likelihood(current, previous) == current

Called ==
    /\ calls' = calls + 1
    /\ h_params' = Params

\* fit, lines 277-299: the dimension check, the aggregation, the locals.
fit(ds, limit, threshold, trace) ==
    /\ Called
    /\ dataset' = ds
    /\ iteration_limit' = limit
    /\ convergence_threshold' = threshold
    /\ trace_likelihood' = trace
    /\ h_updates' = 0
    /\ h_trace' = <<>>
    /\ UNCHANGED <<args, fields>>
    /\ IF dimension_mismatch(ds, number_of_dimensions)
       THEN /\ pc' = "idle"
            /\ result' = Raised("fit", DimensionMismatch)
            /\ UNCHANGED <<unique_dataset, counts, iterations_done,
                           previous_log_likelihood, current_log_likelihood,
                           likelihood_trace, converged>>
       ELSE LET agg == _aggregate_dataset(ds)
            IN  /\ pc' = "loop"
                /\ result' = NoResult
                /\ unique_dataset' = agg[1]
                /\ counts' = agg[2]
                /\ iterations_done' = 0
                /\ previous_log_likelihood' = None
                /\ current_log_likelihood' = None
                /\ likelihood_trace' = new_trace(trace, limit)
                /\ converged' = FALSE

Fit ==
    /\ pc = "idle"
    /\ calls < MaxCalls
    /\ \E ds \in Datasets, limit \in Limits, threshold \in Thresholds,
          trace \in BOOLEAN : fit(ds, limit, threshold, trace)

\* One pass of the while body, lines 300-325.  With iteration_limit None the
\* model stops following the loop after MaxIter passes.
FitIteration ==
    /\ pc = "loop"
    /\ ~converged
    /\ loop_continues(iteration_limit, iterations_done)
    /\ iterations_done < MaxIter
    /\ LET unique_support == _observation_emission_support(
                                 mixing_coefficients, emission_probabilities,
                                 unique_dataset)
           ll == _log_likelihood_from_support(unique_support, counts)
       IN  /\ current_log_likelihood' = ll
           /\ IF convergence_detected(ll, previous_log_likelihood,
                                      convergence_threshold)
              THEN /\ converged' = TRUE
                   /\ UNCHANGED <<mixing_coefficients, emission_probabilities,
                                  likelihood_trace, previous_log_likelihood,
                                  iterations_done, h_updates, h_trace>>
              ELSE LET unique_z_star ==
                           _posterior_probability_of_class_given_support(unique_support)
                       pe == _m_step(unique_z_star, unique_dataset, counts)
                   IN  /\ mixing_coefficients' = pe[1]
                       /\ emission_probabilities' = pe[2]
                       /\ likelihood_trace' =
                              record_trace(likelihood_trace, trace_likelihood,
                                           iteration_limit, iterations_done, ll)
                       /\ previous_log_likelihood' = ll
                       /\ iterations_done' = iterations_done + 1
                       /\ h_updates' = h_updates + 1
                       /\ h_trace' = Append(h_trace, ll)
                       /\ UNCHANGED converged
    /\ UNCHANGED <<pc, args, number_of_components, number_of_dimensions, dataset,
                   unique_dataset, counts, iteration_limit, convergence_threshold,
                   trace_likelihood, result, calls, h_params>>

\* Lines 327-335: the trace is trimmed, the status built, the locals dropped.
FitReturn ==
    /\ pc = "loop"
    /\ converged \/ ~loop_continues(iteration_limit, iterations_done)
    /\ LET tr == final_trace(likelihood_trace, trace_likelihood, iteration_limit,
                             iterations_done)
       IN  result' = [NoResult EXCEPT
                         !.op = "fit",
                         !.ll = returned_log_likelihood(current_log_likelihood,
                                                        previous_log_likelihood),
                         !.converged = converged,
                         !.number_of_iterations = iterations_done,
                         !.trace_available = ~tr.none,
                         !.likelihood_trace = tr.v]
    /\ pc' = "idle"
    /\ unique_dataset' = EmptyMatrix
    /\ counts' = <<>>
    /\ iterations_done' = 0
    /\ previous_log_likelihood' = None
    /\ current_log_likelihood' = None
    /\ likelihood_trace' = NoTrace
    /\ converged' = FALSE
    /\ UNCHANGED <<args, fields, dataset, iteration_limit, convergence_threshold,
                   trace_likelihood, history>>

\* The value log_likelihood computes for a dataset of the Model's width.
LogLikelihoodOf(mixing, emissions, ds) ==
    LET agg == _aggregate_dataset(ds)
        support == _observation_emission_support(mixing, emissions, agg[1])
    IN  _log_likelihood_from_support(support, agg[2])

number_of_free_parameters ==
    (number_of_components - 1) + (number_of_components * number_of_dimensions)

\* A call that reads the Model and returns or raises at once.
Query(ds, res) ==
    /\ Called
    /\ dataset' = ds
    /\ result' = res
    /\ UNCHANGED <<pc, args, fields, unique_dataset, counts, iteration_limit,
                   convergence_threshold, trace_likelihood, iterations_done,
                   previous_log_likelihood, current_log_likelihood,
                   likelihood_trace, converged, h_updates, h_trace>>

log_likelihood(ds, op) ==
    IF dimension_mismatch(ds, number_of_dimensions)
    THEN Raised(op, DimensionMismatch)
    ELSE [NoResult EXCEPT
             !.op = op,
             !.ll = LogLikelihoodOf(mixing_coefficients, emission_probabilities, ds)]

\* -2 * ll + psi * eta, kept as its three parts.
_penalised_likelihood(res, psi) ==
    IF res.error # NoError THEN res
    ELSE [res EXCEPT !.psi = psi, !.eta = number_of_free_parameters]

LogLikelihood ==
    /\ pc = "idle"
    /\ calls < MaxCalls
    /\ \E ds \in Datasets : Query(ds, log_likelihood(ds, "log_likelihood"))

AIC ==
    /\ pc = "idle"
    /\ calls < MaxCalls
    /\ \E ds \in Datasets :
          Query(ds, _penalised_likelihood(log_likelihood(ds, "AIC"), Rat(2, 1)))

\* psi = np.log(len(dataset)), a log value.
BIC ==
    /\ pc = "idle"
    /\ calls < MaxCalls
    /\ \E ds \in Datasets :
          Query(ds, _penalised_likelihood(log_likelihood(ds, "BIC"),
                                          Log(FromInt(NRows(ds)))))

soft_assignment(ds) ==
    _posterior_probability_of_class_given_support(
        _observation_emission_support(mixing_coefficients, emission_probabilities, ds))

\* The outcomes of the kernel call made for the first component; the rows of
\* the emission matrix all have the same width.
assignment_outcomes(ds) == kernel_outcomes(emission_probabilities.rows[1], ds)

\* np.argmax of one row: the first nan if there is one, else the first maximum
\* (0-based).
argmax(row) ==
    LET nans == {k \in DOMAIN row : row[k].k = "nan"}
        best == {k \in DOMAIN row : \A j \in DOMAIN row : Leq(row[j], row[k])}
        pick(S) == CHOOSE k \in S : \A j \in S : k <= j
    IN  (IF nans # {} THEN pick(nans) ELSE pick(best)) - 1

SoftAssignment ==
    /\ pc = "idle"
    /\ calls < MaxCalls
    /\ \E ds \in Datasets : \E outcome \in assignment_outcomes(ds) :
          Query(ds, IF outcome = "raises"
                    THEN Raised("soft_assignment", KernelError)
                    ELSE [NoResult EXCEPT !.op = "soft_assignment",
                                          !.soft = soft_assignment(ds)])

HardAssignment ==
    /\ pc = "idle"
    /\ calls < MaxCalls
    /\ \E ds \in Datasets : \E outcome \in assignment_outcomes(ds) :
          Query(ds, IF outcome = "raises"
                    THEN Raised("hard_assignment", KernelError)
                    ELSE [NoResult EXCEPT
                             !.op = "hard_assignment",
                             !.hard = LET probs == soft_assignment(ds)
                                      IN  Eval([i \in 1..NRows(probs) |->
                                                   argmax(probs.rows[i])])])

\* The Models construction accepts, with parameters drawn from MixingProbs and
\* EmissionProbs.
ValidArgs ==
    {a \in ArgSpace(MixingProbs, EmissionProbs) :
        _validate(a.K, a.D, a.mixing, a.emissions) = NoError}

Init ==
    /\ pc = "idle"
    /\ args \in ValidArgs
    /\ number_of_components = args.K
    /\ number_of_dimensions = args.D
    /\ mixing_coefficients = args.mixing
    /\ emission_probabilities = args.emissions
    /\ LocalsAtRest
    /\ result = [NoResult EXCEPT !.op = "__init__"]
    /\ calls = 0
    /\ h_updates = 0
    /\ h_trace = <<>>
    /\ h_params = <<args.mixing, args.emissions>>

Next ==
    \/ Fit
    \/ FitIteration
    \/ FitReturn
    \/ LogLikelihood
    \/ AIC
    \/ BIC
    \/ SoftAssignment
    \/ HardAssignment

Spec == Init /\ [][Next]_vars

-----------------------------------------------------------------------------
(* _aggregate_dataset on its own: a dataset is drawn, then aggregated. *)

AggDatasets == UNION {BoolMatrices(n, c) : n \in 0..MaxAggN, c \in 1..MaxD}

InitAgg ==
    /\ pc = "ready"
    /\ dataset \in AggDatasets
    /\ args = NoArgs
    /\ number_of_components = 0
    /\ number_of_dimensions = 0
    /\ mixing_coefficients = <<>>
    /\ emission_probabilities = EmptyMatrix
    /\ WorkAtRest
    /\ result = NoResult
    /\ calls = 0
    /\ h_updates = 0
    /\ h_trace = <<>>
    /\ h_params = <<<<>>, EmptyMatrix>>

Aggregate ==
    /\ pc = "ready"
    /\ LET agg == _aggregate_dataset(dataset)
       IN  /\ unique_dataset' = agg[1]
           /\ counts' = agg[2]
    /\ pc' = "aggregated"
    /\ UNCHANGED <<args, fields, dataset, iteration_limit, convergence_threshold,
                   trace_likelihood, iterations_done, previous_log_likelihood,
                   current_log_likelihood, likelihood_trace, converged, result,
                   history>>

NextAgg == Aggregate

SpecAgg == InitAgg /\ [][NextAgg]_vars

-----------------------------------------------------------------------------
(* Properties. *)

\* x lies in [0, 1] (a nan does not).
InUnit(x) == x.k = "num" /\ 0 <= x.n /\ x.n <= x.d

\* |sum(v) - 1| <= 1e-08 + 1e-05
SumsToOne(v) ==
    LET total == SumSeq(v)
    IN  total.k = "num" /\ Leq(AbsNum(Sub(total, One)), Rat(1001, AtolInv))

ValidationErrors ==
    {WrongMixingShape, MixingSum, MixingBounds, WrongEmissionShape, EmissionBounds}

InvalidArguments(a) ==
    \/ Len(a.mixing) # a.K
    \/ ~SumsToOne(a.mixing)
    \/ \E i \in DOMAIN a.mixing : ~InUnit(a.mixing[i])
    \/ NRows(a.emissions) # a.K
    \/ a.emissions.cols # a.D
    \/ \E k \in DOMAIN a.emissions.rows :
          \E d \in DOMAIN a.emissions.rows[k] : ~InUnit(a.emissions.rows[k][d])

\* C1: constructing a BernoulliMixture raises a ValueError of the validator
\* whenever the mixing vector's shape is not (K,), its sum is not 1 within
\* tolerance, one of its entries is outside [0,1], the emission matrix's shape
\* is not (K,D) or one of its entries is outside [0,1]; it succeeds otherwise.
C1_ConstructionValidates ==
    pc \in {"failed", "idle"} =>
        /\ InvalidArguments(args) =>
               pc = "failed" /\ result.error \in ValidationErrors
        /\ ~InvalidArguments(args) => pc = "idle" /\ result.error = NoError

\* A construction refused by the last of the five checks.
C1_Witness == pc = "failed" /\ result.error = EmissionBounds

\* |current - previous| <= threshold, for finite log values.
WithinThreshold(current, previous, threshold) ==
    /\ IsNum(current)
    /\ IsNum(previous)
    /\ Leq(current, Mul(threshold, previous))
    /\ Leq(previous, Mul(threshold, current))

\* C2: in a pass of fit's loop where a previous log-likelihood exists and the
\* log-likelihood of the current parameters is within convergence_threshold
\* (absolute difference) of it, fit sets converged and applies no M-step; and
\* when fit returns converged, the Model's parameters are the ones the
\* returned log-likelihood was computed from.
C2_ConvergenceOnCurrentParameters ==
    [][/\ (/\ pc = "loop"
           /\ pc' = "loop"
           /\ previous_log_likelihood # None
           /\ WithinThreshold(
                  LogLikelihoodOf(mixing_coefficients, emission_probabilities, dataset),
                  previous_log_likelihood, convergence_threshold))
          => /\ converged'
             /\ Params' = Params
             /\ h_updates' = h_updates
             /\ current_log_likelihood' =
                    LogLikelihoodOf(mixing_coefficients, emission_probabilities, dataset)
       /\ (pc = "loop" /\ converged /\ pc' = "idle")
          => /\ result'.converged
             /\ Params' = Params
             /\ result'.ll =
                    LogLikelihoodOf(mixing_coefficients', emission_probabilities',
                                    dataset')
      ]_vars

\* A fit that returned converged after at least one M-step.
C2_Witness ==
    /\ pc = "idle"
    /\ result.op = "fit"
    /\ result.converged
    /\ result.number_of_iterations >= 1
    /\ result.ll.k = "num"
    /\ NRows(dataset) > 0

FitReturned == pc = "idle" /\ result.op = "fit" /\ result.error = NoError

\* C3: with a finite iteration_limit L, fit never commits more than L M-steps,
\* number_of_iterations is the number of M-steps committed during the call,
\* and once L M-steps are committed without convergence the loop is over and
\* fit returns, without error, converged = false.
C3_IterationLimit ==
    /\ (pc = "loop" /\ ~IsNone(iteration_limit)) =>
           /\ h_updates <= iteration_limit
           /\ iterations_done = h_updates
           /\ h_updates = iteration_limit =>
                  ~converged /\ ~loop_continues(iteration_limit, iterations_done)
    /\ (FitReturned /\ ~IsNone(iteration_limit)) =>
           /\ h_updates <= iteration_limit
           /\ result.number_of_iterations = h_updates
           /\ h_updates = iteration_limit => ~result.converged

\* A fit that used up a limit of 2 without converging.
C3_Witness ==
    /\ FitReturned
    /\ iteration_limit = 2
    /\ h_updates = 2
    /\ ~result.converged

\* C4: on every termination path of fit the returned log-likelihood is the
\* log-likelihood of the dataset under the Model's parameters as they are when
\* fit returns.
C4_ReturnedLikelihoodIsPostFit ==
    FitReturned =>
        result.ll = LogLikelihoodOf(mixing_coefficients, emission_probabilities,
                                    dataset)

ValidParameters(mixing, emissions) ==
    /\ SumsToOne(mixing)
    /\ \A k \in DOMAIN mixing : InUnit(mixing[k])
    /\ \A k \in DOMAIN emissions.rows :
          \A d \in DOMAIN emissions.rows[k] : InUnit(emissions.rows[k][d])

\* C5: after any fit call on a validly constructed Model the mixing
\* coefficients sum to 1 within tolerance and every mixing coefficient and
\* emission probability lies in [0,1], rows of zero support and components of
\* zero weight included.
C5_ParametersStayValid ==
    pc = "idle" => ValidParameters(mixing_coefficients, emission_probabilities)

\* C6: an M-step whose result violates the validator's checks is rejected, not
\* committed: every change of the Model's parameters inside fit leaves
\* parameters that pass the checks.
C6_InvalidUpdateNeverCommitted ==
    [][(pc = "loop" /\ Params' # Params) =>
           ValidParameters(mixing_coefficients', emission_probabilities')]_vars

\* C7: fit, log_likelihood, AIC and BIC, given a dataset whose column count is
\* not D, raise the dimension-mismatch error at once: the loop is not entered,
\* nothing is aggregated, and the Model's parameters are those of before the
\* call.
C7_DimensionMismatchIsAtomic ==
    [][(/\ pc = "idle"
        /\ calls' = calls + 1
        /\ pc' = "loop" \/ result'.op \in {"fit", "log_likelihood", "AIC", "BIC"}
        /\ dataset'.cols # number_of_dimensions)
       => /\ pc' = "idle"
          /\ result'.error = DimensionMismatch
          /\ Params' = Params
          /\ Params' = h_params'
          /\ unique_dataset' = EmptyMatrix]_vars

\* A fit refused for a non-empty dataset of the wrong width.
C7_Witness ==
    /\ pc = "idle"
    /\ result.op = "fit"
    /\ result.error = DimensionMismatch
    /\ dataset.cols # number_of_dimensions
    /\ NRows(dataset) > 0

\* C8: soft_assignment and hard_assignment fail with an error for a dataset
\* whose column count is not D, and return no assignment (any error raised
\* counts as the failure).
C8_AssignmentRejectsMismatch ==
    (/\ pc = "idle"
     /\ result.op \in {"soft_assignment", "hard_assignment"}
     /\ dataset.cols # number_of_dimensions)
    => result.error # NoError

\* C9: the returned likelihood trace is present exactly when trace_likelihood
\* was asked for, and then its length is number_of_iterations and its entry i
\* is the log-likelihood computed in iteration i before that iteration's
\* M-step, with no unwritten slot left.
C9_TraceMatchesIterations ==
    FitReturned =>
        /\ result.trace_available <=> trace_likelihood
        /\ result.trace_available =>
               /\ Len(result.likelihood_trace) = result.number_of_iterations
               /\ result.likelihood_trace = h_trace
               /\ \A i \in DOMAIN result.likelihood_trace :
                      result.likelihood_trace[i] # Uninit

\* A traced fit with limit 2 that converged after one M-step: the buffer of
\* two slots was trimmed.
C9_Witness ==
    /\ FitReturned
    /\ result.trace_available
    /\ iteration_limit = 2
    /\ result.converged
    /\ result.number_of_iterations = 1
    /\ NRows(dataset) > 0

\* The number of rows of ds equal to r.
Occurrences(ds, r) == Cardinality({j \in DOMAIN ds.rows : ds.rows[j] = r})

\* C10: _aggregate_dataset returns unique rows without duplicates, containing
\* every row of the dataset, with weights[i] the number of dataset rows equal
\* to unique_rows[i], and weights summing to N.
C10_AggregationExact ==
    pc = "aggregated" =>
        /\ Len(counts) = NRows(unique_dataset)
        /\ \A i, j \in DOMAIN unique_dataset.rows :
               unique_dataset.rows[i] = unique_dataset.rows[j] => i = j
        /\ \A j \in DOMAIN dataset.rows :
               \E i \in DOMAIN unique_dataset.rows :
                   unique_dataset.rows[i] = dataset.rows[j]
        /\ \A i \in DOMAIN unique_dataset.rows :
               counts[i] = Occurrences(dataset, unique_dataset.rows[i])
        /\ SumInt(counts) = NRows(dataset)

\* Three rows, two of them equal, aggregated to two rows.
C10_Witness ==
    /\ pc = "aggregated"
    /\ NRows(dataset) = 3
    /\ NRows(unique_dataset) = 2

\* C11: for a dataset of D columns every row of soft_assignment's output sums
\* to 1, and hard_assignment returns for each row the arg-max index of that
\* row of soft_assignment, rows of zero support under every component included.
C11_AssignmentsConsistent ==
    (pc = "idle" /\ result.error = NoError /\ dataset.cols = number_of_dimensions)
    => /\ result.op = "soft_assignment" =>
              /\ NRows(result.soft) = NRows(dataset)
              /\ \A i \in DOMAIN result.soft.rows : SumsToOne(result.soft.rows[i])
       /\ result.op = "hard_assignment" =>
              /\ Len(result.hard) = NRows(dataset)
              /\ \A i \in DOMAIN result.hard :
                     /\ result.hard[i] = argmax(soft_assignment(dataset).rows[i])
                     /\ SumsToOne(soft_assignment(dataset).rows[i])

\* a <= b on log values; false when either is nan.
LogLeq(a, b) ==
    /\ a.k # "nan"
    /\ b.k # "nan"
    /\ \/ a.k = "ninf"
       \/ b.k = "pinf"
       \/ IsNum(a) /\ IsNum(b) /\ Leq(a, b)

\* C12: within one fit call every log-likelihood computed in an iteration is
\* at least the one computed in the iteration before it.
C12_LikelihoodNonDecreasing ==
    [][(pc = "loop" /\ pc' = "loop" /\ previous_log_likelihood # None
        /\ current_log_likelihood' # current_log_likelihood)
       => LogLeq(previous_log_likelihood, current_log_likelihood')]_vars

=============================================================================
